---- MODULE Spec2Model ----
(***************************************************************************)
(* A model of the job discovery and application core of linkedin-job-agent *)
(*                                                                         *)
(*   SpecApply    HumanJobApplicant.apply_to_jobs and _apply_to_job        *)
(*                (src/linkedin/human_flow.py)                             *)
(*   SpecScroll   JobScraper._scroll_job_list (src/linkedin/scraper.py)    *)
(*   SpecApplyLive  SpecApply with weak fairness of the coroutine's steps  *)
(*   SpecExtract  extract_jobs_from_html (extract_jobs.py)                 *)
(*   SpecRate     RateLimiter.acquire_apply (src/utils/rate_limiter.py)    *)
(*   SpecList     JobScraper.get_job_listings_by_page and its consumers    *)
(*   SpecPaging   either pagination loop: SpecList's or SpecApply's        *)
(*   SpecBreaker  CircuitBreaker.call (src/utils/rate_limiter.py)           *)
(*   SpecRepo     ApplicationRepository (src/database/repository.py)       *)
(*                                                                         *)
(* The browser page, the AI scorer and the stored applications are the     *)
(* environment: what a lookup finds, what the scorer answers and which     *)
(* interaction raises are chosen nondeterministically at every step.       *)
(* Scores are kept in hundredths (match_score / 100.0 = 0.65 is 65).       *)
(***************************************************************************)
EXTENDS Integers, Sequences, FiniteSets, TLC

VARIABLES
    \* ---- HumanJobApplicant.apply_to_jobs
    pc,                 \* position in apply_to_jobs
    max_jobs,           \* parameter
    min_match_score,    \* parameter, in hundredths
    jobs_processed,
    page_num,
    job_cards,          \* len(job_cards): the cards of the current page
    job_id,             \* the data-job-id of the card being handled, 0 for none
    i,                  \* index of the for loop, 1-based
    reviewed_count,
    applied_count,
    unreadable,         \* some card of this run gave no details
    decision,           \* the match evaluation and apply decision just made
    \* ---- HumanJobApplicant._apply_to_job
    apc,                \* position in _apply_to_job
    step,               \* iterations of the step loop completed
    n_clicks,           \* clicks performed in this session, all controls
    n_step_clicks,      \* submit, continue and review clicks in this session
    iter,               \* the last iteration of the step loop
    session,            \* what the session found and how it ended
    \* ---- the stored applications and the sessions of this run
    applied_db,         \* job ids the persistence collaborator holds
    had_session,        \* job ids whose session ended on an earlier page of this run
    page_sessions,      \* job ids whose session was started on the current page
    reopened,           \* a session was started for a job of had_session
    \* ---- JobScraper._scroll_job_list
    spc,
    scrollable_element,
    last_count,
    no_new_jobs_count,
    rounds,             \* scroll rounds completed
    current_count,
    seen,               \* the last observed counts, oldest first
    scroll_error,
    \* ---- extract_jobs_from_html
    epc,                \* position in extract_jobs_from_html
    html,               \* the parsed page
    selector_idx,       \* selectors of job_selectors already tried
    jobs,               \* the records extracted so far
    \* ---- RateLimiter (src/utils/rate_limiter.py)
    rl_pc,              \* position of every running acquire_apply call
    daily_limit,
    applications_today,
    day_elapsed,        \* time.time() - last_reset >= 86400
    in_cooldown,        \* time.time() - last_action_time < min_cooldown
    \* ---- JobScraper.get_job_listings_by_page and its consumer
    g_pc,               \* position in get_job_listings_by_page
    consumer,           \* who iterates the generator
    g_max_jobs,         \* parameter max_jobs
    g_page_num,
    total_collected,
    page_jobs,          \* len(page_jobs) of the last extraction
    g_jobs,             \* len(jobs) of get_job_listings
    extract_calls,      \* calls of _extract_jobs_from_page so far
    next_calls,         \* calls of _go_to_next_page so far
    empty_at,           \* extract_calls when an extraction came back empty, else 0
    \* ---- CircuitBreaker (src/utils/rate_limiter.py)
    cb_pc,              \* per caller: idle, or awaiting func ("in_func", "probe")
    failure_threshold,
    failure_count,
    last_failure_time,  \* "none", or how long ago: "recent" (< recovery_timeout), "old"
    state,              \* "CLOSED", "OPEN", "HALF_OPEN"
    cb_call,            \* the call that completed last, and what it left behind
    streak,             \* expected failures completed one after another
    \* ---- ApplicationRepository (src/database/repository.py)
    applications,       \* the rows of the applications table
    next_id,            \* application ids handed out so far
    repo_call           \* the repository call made last, and what it returned

applyVars == <<pc, max_jobs, min_match_score, jobs_processed, page_num, job_cards,
               job_id, i, reviewed_count, applied_count, unreadable, decision, apc,
               step, n_clicks, n_step_clicks, iter, session, applied_db, had_session,
               page_sessions, reopened>>
scrollVars == <<spc, scrollable_element, last_count, no_new_jobs_count, rounds,
                current_count, seen, scroll_error>>
extractVars == <<epc, html, selector_idx, jobs>>
rateVars == <<rl_pc, daily_limit, applications_today, day_elapsed, in_cooldown>>
listVars == <<g_pc, consumer, g_max_jobs, g_page_num, total_collected, page_jobs, g_jobs,
              extract_calls, next_calls, empty_at>>
breakerVars == <<cb_pc, failure_threshold, failure_count, last_failure_time, state,
                 cb_call, streak>>
repoVars == <<applications, next_id, repo_call>>
vars == <<applyVars, scrollVars, extractVars, rateVars, listVars, breakerVars, repoVars>>

----------------------------------------------------------------------------
\* Bounds of the model

NumCallers == 2         \* acquire_apply calls running on one RateLimiter
MaxLimit == 2           \* daily_limit is drawn from 1..MaxLimit
MaxThreshold == 2       \* failure_threshold is drawn from 1..MaxThreshold
MaxApps == 3            \* application ids the repository hands out in a run
NumJobs == 2            \* job ids 1..NumJobs
MaxCards == 2           \* cards on one page
MaxJobsParam == 2       \* max_jobs is drawn from 1..MaxJobsParam
MaxPages == 2           \* page_num is counted up to MaxPages
MaxElems == 2           \* candidate elements of one HTML page
MaxListJobs == 6        \* max_jobs of get_job_listings_by_page is in 1..MaxListJobs

JobIds == 1..NumJobs

\* What the persistence collaborator may hold when a run starts: nothing, or
\* job 1 recorded as applied by an earlier run.
StoredApplications == {{}, {1}}

\* match_score values the scorer may answer, and thresholds, in hundredths
ScoreValues == {0, 65, 70, 100}
Thresholds == {50, 70}
Recommendations == {"yes", "no", "maybe"}
Absent == "absent"

----------------------------------------------------------------------------
\* Program constants

max_steps == 5          \* human_flow.py:338
MinDetailLen == 100     \* human_flow.py:152
DefaultScore == 50      \* ai_parser.py:131, 138, 143
MaxScrolls == 15        \* scraper.py:306
StableEnough == 3       \* scraper.py:331
EnoughJobs == 20        \* scraper.py:331
StableCap == 5          \* scraper.py:335
PageSize == 25          \* scraper.py:344
max_pages == 5          \* scraper.py:34

\* Job-card counts the page may show: below EnoughJobs, between EnoughJobs
\* and PageSize, and a full page.
CountValues == {0, 12, EnoughJobs, 23, PageSize}

----------------------------------------------------------------------------
\* The scorer and the apply decision

\* AIResumeParser.match_job: what ask_claude and extract_json_from_text give.
\* ai.kind is "raise" (ask_claude raises), "empty" (no response),
\* "unparsable" (extract_json_from_text raises) or "json" (a parsed object
\* whose match_score and recommendation may be missing).
AiAnswers ==
    [kind : {"raise", "empty", "unparsable"}, has_score : {FALSE}, score : {0},
     has_rec : {FALSE}, rec : {"no"}]
    \cup [kind : {"json"}, has_score : {TRUE}, score : ScoreValues,
          has_rec : BOOLEAN, rec : Recommendations]
    \cup [kind : {"json"}, has_score : {FALSE}, score : {0},
          has_rec : BOOLEAN, rec : Recommendations]

match_job(ai) ==
    CASE ai.kind = "raise" -> [raised |-> TRUE, match_score |-> 0, recommendation |-> Absent]
      [] ai.kind \in {"empty", "unparsable"} ->
            [raised |-> FALSE, match_score |-> DefaultScore, recommendation |-> "maybe"]
      [] OTHER ->
            [raised |-> FALSE,
             match_score |-> IF ai.has_score THEN ai.score ELSE DefaultScore,
             recommendation |-> IF ai.has_rec THEN ai.rec ELSE "maybe"]

\* HumanJobApplicant._evaluate_job_match: only the score of the match result
\* is returned, in hundredths; an exception gives 0.0.
_evaluate_job_match(match_result) ==
    IF match_result.raised THEN 0 ELSE match_result.match_score

\* The recommendation that came with the score (not read by apply_to_jobs).
RecommendationOf(match_result) ==
    IF match_result.raised THEN Absent ELSE match_result.recommendation

ShouldApplyAtThreshold(match_score, recommendation, threshold) ==
    match_score = threshold

ShouldApplyOnRecommendation(match_score, recommendation, threshold) ==
    recommendation \in {"yes", "maybe"} \/ match_score >= threshold

\* The apply decision of apply_to_jobs, line 69.
ShouldApply(match_score, recommendation, threshold) ==
    match_score >= threshold

\* HumanJobApplicant._click_and_read_job: None (FALSE) when the click raises,
\* no detail panel is found or the panel's HTML is shorter than 100 characters.
\* easy is the Easy Apply selector that matched: "aria" (the aria-label one,
\* the only one _apply_to_job looks for), "other" or "none".
DetailReads ==
    [click_ok : BOOLEAN, panel : BOOLEAN, html_len : {MinDetailLen - 1, MinDetailLen},
     easy : {"none", "aria", "other"}]

\* html_reads counts the calls of detail_panel.inner_html() (line 149).
_click_and_read_job(d) ==
    IF ~d.click_ok \/ ~d.panel
    THEN [read |-> FALSE, easy_apply |-> FALSE, html_reads |-> 0]
    ELSE IF d.html_len < MinDetailLen
    THEN [read |-> FALSE, easy_apply |-> FALSE, html_reads |-> 1]
    ELSE [read |-> TRUE, easy_apply |-> d.easy # "none", html_reads |-> 1]

\* decision.detail is what the detail read of the card gave: "unread" (None),
\* "no_easy" (read, no Easy Apply) or "easy"; "none" when no card was read.
\* decision.scorer is how the AI answered (ai.kind), "none" when not asked.
\* decision.short_reads is, for a card dropped because its panel was too
\* short, the number of times the panel's HTML was read.
NoDecision == [made |-> FALSE, detail |-> "none", scorer |-> "none", score |-> 0,
               rec |-> Absent, proceed |-> FALSE, short_reads |-> 0]
Skipped(detail) == [NoDecision EXCEPT !.detail = detail]

\* Line 60, if not job_details.get('easy_apply', False): continue.
NeverSkips(job_details) == FALSE
SkipsWithoutEasyApply(job_details) == ~job_details.easy_apply
\* iter: the iteration's number, the controls the page showed when every
\* lookup and the click went through, and the controls clicked.
NoIter == [n |-> 0, present |-> {}, clicked |-> {}]
\* session.dismiss is how the Dismiss lookup and click went, "none" before it.
NoSession == [easy_clicked |-> FALSE, dialog |-> FALSE, submitted |-> FALSE,
              dismissed |-> FALSE, dismiss |-> "none", outcome |-> "none",
              result |-> FALSE]

----------------------------------------------------------------------------
\* HumanJobApplicant.apply_to_jobs

\* An applicant that has already reviewed a job.
InitApplyUsed ==
    /\ pc = "page"
    /\ max_jobs \in 1..MaxJobsParam
    /\ min_match_score \in Thresholds
    /\ jobs_processed = 0
    /\ page_num = 1
    /\ job_cards = 0
    /\ job_id = 0
    /\ i = 1
    /\ reviewed_count = 1
    /\ applied_count = 0
    /\ unreadable = FALSE
    /\ decision = NoDecision
    /\ apc = "idle"
    /\ step = 0
    /\ n_clicks = 0
    /\ n_step_clicks = 0
    /\ iter = NoIter
    /\ session = NoSession
    /\ applied_db \in StoredApplications
    /\ had_session = {}
    /\ page_sessions = {}
    /\ reopened = FALSE

InitApply ==
    /\ pc = "page"
    /\ max_jobs \in 1..MaxJobsParam
    /\ min_match_score \in Thresholds
    /\ jobs_processed = 0
    /\ page_num = 1
    /\ job_cards = 0
    /\ job_id = 0
    /\ i = 1
    /\ reviewed_count = 0
    /\ applied_count = 0
    /\ unreadable = FALSE
    /\ decision = NoDecision
    /\ apc = "idle"
    /\ step = 0
    /\ n_clicks = 0
    /\ n_step_clicks = 0
    /\ iter = NoIter
    /\ session = NoSession
    /\ applied_db \in StoredApplications
    /\ had_session = {}
    /\ page_sessions = {}
    /\ reopened = FALSE

sessionVars == <<apc, step, n_clicks, n_step_clicks, iter, session>>
runVars == <<max_jobs, min_match_score, applied_db>>

\* while jobs_processed < max_jobs fails: the summary and the return.
Finish ==
    /\ pc = "page"
    /\ jobs_processed >= max_jobs
    /\ pc' = "done"
    /\ UNCHANGED <<scrollVars, extractVars, rateVars, listVars,
                   breakerVars, repoVars>>
    /\ UNCHANGED <<runVars, unreadable, jobs_processed, page_num, job_cards, job_id, i, reviewed_count,
                   applied_count, decision, sessionVars, had_session, page_sessions,
                   reopened>>

\* if not job_cards / if not page_jobs: the page gave nothing.
NeverEmpty(n) == FALSE
NoJobs(n) == n = 0

\* _get_job_cards: the cards of the page, [] when a wait or the query raises;
\* no cards ends the run.
GetJobCards ==
    /\ pc = "page"
    /\ jobs_processed < max_jobs
    /\ \E cards \in 0..MaxCards :
          IF NoJobs(cards)
          THEN /\ pc' = "done"
               /\ job_cards' = cards
               /\ UNCHANGED i
          ELSE /\ pc' = "cards"
               /\ job_cards' = cards
               /\ i' = 1
    /\ UNCHANGED <<scrollVars, extractVars, rateVars, listVars,
                   breakerVars, repoVars>>
    /\ UNCHANGED <<runVars, unreadable, jobs_processed, page_num, job_id, reviewed_count,
                   applied_count, decision, sessionVars, had_session, page_sessions,
                   reopened>>

\* One pass of the for loop up to the apply decision: read the details,
\* count the job, skip it without Easy Apply, score it, decide.
NextCard ==
    /\ pc = "cards"
    /\ i <= job_cards
    /\ jobs_processed < max_jobs
    /\ \E d \in DetailReads :
         LET job_details == _click_and_read_job(d)
         IN  IF ~job_details.read
             THEN /\ i' = i + 1
                  /\ unreadable' = TRUE
                  /\ decision' = [Skipped("unread") EXCEPT
                                     !.short_reads = job_details.html_reads]
                  /\ UNCHANGED <<pc, jobs_processed, reviewed_count, apc, reopened, job_id,
                                 page_sessions>>
             ELSE /\ reviewed_count' = reviewed_count + 1
                  /\ jobs_processed' = jobs_processed + 1
                  /\ UNCHANGED unreadable
                  /\ IF SkipsWithoutEasyApply(job_details)
                     THEN /\ i' = i + 1
                          /\ decision' = Skipped("no_easy")
                          /\ UNCHANGED <<pc, apc, reopened, job_id, page_sessions>>
                     ELSE \E id \in JobIds \ page_sessions, ai \in AiAnswers :
                            LET match_result == match_job(ai)
                                match_score == _evaluate_job_match(match_result)
                                rec == RecommendationOf(match_result)
                                go == ShouldApply(match_score, rec, min_match_score)
                            IN  /\ decision' = [made |-> TRUE,
                                                detail |-> IF job_details.easy_apply
                                                           THEN "easy" ELSE "no_easy",
                                                scorer |-> ai.kind,
                                                short_reads |-> 0,
                                                score |-> match_score,
                                                rec |-> rec, proceed |-> go]
                                /\ IF go
                                   THEN /\ pc' = "session"
                                        /\ apc' = "easy"
                                        /\ reopened' = (reopened \/ id \in had_session)
                                        /\ job_id' = id
                                        /\ page_sessions' = page_sessions \cup {id}
                                        /\ UNCHANGED i
                                   ELSE /\ i' = i + 1
                                        /\ UNCHANGED <<pc, apc, reopened, job_id,
                                                       page_sessions>>
    /\ UNCHANGED <<scrollVars, extractVars, rateVars, listVars,
                   breakerVars, repoVars>>
    /\ UNCHANGED <<runVars, page_num, job_cards, applied_count, step, n_clicks,
                   n_step_clicks, iter, session, had_session>>

\* Lines 40-42: the for loop is over after the last card, or breaks at max_jobs.
ForLoopAnyTime(idx, cards, processed, limit) == TRUE
ForLoopOver(idx, cards, processed, limit) == idx > cards \/ processed >= limit

\* The for loop ends: every card was handled or max_jobs was reached.
EndOfPage ==
    /\ pc = "cards"
    /\ ForLoopOver(i, job_cards, jobs_processed, max_jobs)
    /\ pc' = "nextpage"
    /\ UNCHANGED <<scrollVars, extractVars, rateVars, listVars,
                   breakerVars, repoVars>>
    /\ UNCHANGED <<runVars, unreadable, jobs_processed, page_num, job_cards, job_id, i, reviewed_count,
                   applied_count, decision, sessionVars, had_session, page_sessions,
                   reopened>>

\* page_num += 1. The number is only printed, no condition of the loop reads
\* it; the model counts it up to MaxPages and holds it there.
NextPageNum(n) == IF n < MaxPages THEN n + 1 ELSE n

\* _go_to_next_page, asked only below max_jobs: a next button is clicked and
\* True returned whatever the click leads to (the listing shown next is not
\* looked at); no button or an error ends the run.
GoToNextPage ==
    /\ pc = "nextpage"
    /\ IF jobs_processed < max_jobs
       THEN \E next_btn \in {"present", "absent", "error"} :
               IF next_btn = "present"
               THEN /\ page_num' = NextPageNum(page_num)
                    /\ pc' = "page"
                    /\ had_session' = had_session \cup page_sessions
                    /\ page_sessions' = {}
               ELSE /\ pc' = "done"
                    /\ UNCHANGED <<page_num, had_session, page_sessions>>
       ELSE /\ pc' = "page"
            /\ UNCHANGED <<page_num, had_session, page_sessions>>
    /\ UNCHANGED <<scrollVars, extractVars, rateVars, listVars,
                   breakerVars, repoVars>>
    /\ UNCHANGED <<runVars, unreadable, jobs_processed, job_cards, job_id, i, reviewed_count,
                   applied_count, decision, sessionVars, reopened>>

----------------------------------------------------------------------------
\* HumanJobApplicant._apply_to_job

\* How one browser interaction (a lookup, then a click and the wait after it)
\* can go: the control is absent, the lookup raises, the click raises before
\* the control was clicked, an error is raised once the control was clicked
\* (by the wait after the click), or all of it succeeds.
Interactions == {"absent", "lookup_error", "click_error", "wait_error", "ok"}

\* Lines 373-375, except Exception: the error is printed, return False.
ExceptResultTrue == TRUE
ExceptResult == FALSE

\* return <result>: the session ends with the given outcome.
Return(outcome, result, s) ==
    /\ apc' = "returned"
    /\ session' = [s EXCEPT !.outcome = outcome, !.result = result]

\* Lines 325-330: find and click the Easy Apply button.
ApplyEasy ==
    /\ pc = "session"
    /\ apc = "easy"
    /\ \E r \in Interactions :
         CASE r = "absent" ->
                /\ Return("abandoned", FALSE, session)
                /\ UNCHANGED n_clicks
           [] r \in {"lookup_error", "click_error"} ->
                /\ Return("failed", ExceptResult, session)
                /\ UNCHANGED n_clicks
           [] r = "wait_error" ->
                /\ Return("failed", ExceptResult, [session EXCEPT !.easy_clicked = TRUE])
                /\ n_clicks' = n_clicks + 1
           [] OTHER ->
                /\ apc' = "modal"
                /\ session' = [session EXCEPT !.easy_clicked = TRUE]
                /\ n_clicks' = n_clicks + 1
    /\ decision' = NoDecision
    /\ UNCHANGED <<scrollVars, extractVars, rateVars, listVars,
                   breakerVars, repoVars>>
    /\ UNCHANGED <<runVars, unreadable, pc, jobs_processed, page_num, job_cards, job_id, i,
                   reviewed_count, applied_count, step, n_step_clicks, iter,
                   had_session, page_sessions,
                   reopened>>

\* Line 334, if not modal: return False.
ModalAssumedOpen(r) == TRUE
ModalOpened(r) == r = "ok"

\* Lines 333-335: the dialog must be there after the click.
ApplyModal ==
    /\ pc = "session"
    /\ apc = "modal"
    /\ \E r \in {"absent", "lookup_error", "ok"} :
         CASE r = "lookup_error" -> Return("failed", ExceptResult, session)
           [] ~ModalOpened(r) -> Return("abandoned", FALSE, session)
           [] OTHER ->
                /\ apc' = "step"
                /\ session' = [session EXCEPT !.dialog = (r = "ok")]
    /\ UNCHANGED <<scrollVars, extractVars, rateVars, listVars,
                   breakerVars, repoVars>>
    /\ UNCHANGED <<runVars, unreadable, pc, jobs_processed, page_num, job_cards, job_id, i, reviewed_count,
                   applied_count, decision, step, n_clicks, n_step_clicks, iter,
                   had_session, page_sessions,
                   reopened>>

\* The control one iteration of the step loop clicks, given the controls the
\* page shows: submit first, else continue (either selector), else review.
StepChoiceContinueFirst(present) ==
    IF "continue" \in present THEN {"continue"}
    ELSE IF "submit" \in present THEN {"submit"}
    ELSE IF "review" \in present THEN {"review"}
    ELSE {}

StepChoice(present) ==
    IF "submit" \in present THEN {"submit"}
    ELSE IF "continue" \in present THEN {"continue"}
    ELSE IF "review" \in present THEN {"review"}
    ELSE {}

\* Line 339, for step in range(max_steps): another iteration after s of them.
InStepLoopOneMore(s) == s <= max_steps
InStepLoop(s) == s < max_steps

\* Lines 339-364: one iteration of for step in range(max_steps).
ApplyStep ==
    /\ pc = "session"
    /\ apc = "step"
    /\ InStepLoop(step)
    /\ \E present \in SUBSET {"submit", "continue", "review"},
          r \in {"lookup_error", "click_error", "wait_error", "ok"} :
         LET clicked == StepChoice(present)
             it == [n |-> step + 1, present |-> present, clicked |-> clicked]
             none == [n |-> step + 1, present |-> {}, clicked |-> {}]
         IN  CASE r = "lookup_error" ->
                    /\ Return("failed", ExceptResult, session)
                    /\ iter' = none
                    /\ UNCHANGED <<step, n_clicks, n_step_clicks>>
               [] clicked = {} ->
                    /\ r = "ok"
                    /\ apc' = "dismiss"
                    /\ iter' = it
                    /\ UNCHANGED <<step, n_clicks, n_step_clicks, session>>
               [] r = "click_error" ->
                    /\ Return("failed", ExceptResult, session)
                    /\ iter' = none
                    /\ UNCHANGED <<step, n_clicks, n_step_clicks>>
               [] r = "wait_error" ->
                    /\ Return("failed", ExceptResult,
                              [session EXCEPT !.submitted = ("submit" \in clicked)])
                    /\ iter' = it
                    /\ n_clicks' = n_clicks + 1
                    /\ n_step_clicks' = n_step_clicks + 1
                    /\ UNCHANGED step
               [] "submit" \in clicked ->
                    /\ Return("submitted", TRUE, [session EXCEPT !.submitted = TRUE])
                    /\ iter' = it
                    /\ n_clicks' = n_clicks + 1
                    /\ n_step_clicks' = n_step_clicks + 1
                    /\ UNCHANGED step
               [] OTHER ->
                    /\ iter' = it
                    /\ n_clicks' = n_clicks + 1
                    /\ n_step_clicks' = n_step_clicks + 1
                    /\ step' = step + 1
                    /\ apc' = IF InStepLoop(step + 1) THEN "step" ELSE "dismiss"
                    /\ UNCHANGED session
    /\ UNCHANGED <<scrollVars, extractVars, rateVars, listVars,
                   breakerVars, repoVars>>
    /\ UNCHANGED <<runVars, unreadable, pc, jobs_processed, page_num, job_cards, job_id, i, reviewed_count,
                   applied_count, decision, had_session, page_sessions,
                   reopened>>

\* Lines 368-369, if close_btn: await close_btn.click().
DismissNeverClicks(r) == FALSE
DismissClicks(r) == r = "ok"

\* Lines 366-371: not submitted, close the dialog if it can be dismissed.
ApplyDismiss ==
    /\ pc = "session"
    /\ apc = "dismiss"
    /\ \E r \in {"absent", "lookup_error", "click_error", "ok"} :
         LET s == [session EXCEPT !.dismiss = r]
         IN  CASE r = "absent" ->
                    /\ Return("abandoned", FALSE, s)
                    /\ UNCHANGED n_clicks
               [] r \in {"lookup_error", "click_error"} ->
                    /\ Return("failed", ExceptResult, s)
                    /\ UNCHANGED n_clicks
               [] OTHER ->
                    /\ Return("abandoned", FALSE,
                              [s EXCEPT !.dismissed = DismissClicks(r)])
                    /\ n_clicks' = IF DismissClicks(r) THEN n_clicks + 1 ELSE n_clicks
    /\ UNCHANGED <<scrollVars, extractVars, rateVars, listVars,
                   breakerVars, repoVars>>
    /\ UNCHANGED <<runVars, unreadable, pc, jobs_processed, page_num, job_cards, job_id, i, reviewed_count,
                   applied_count, decision, step, n_step_clicks, iter, had_session,
                   page_sessions, reopened>>

\* apply_to_jobs lines 71-80: count a submitted application, pause, next card.
AfterApply ==
    /\ pc = "session"
    /\ apc = "returned"
    /\ applied_count' = IF session.result THEN applied_count + 1 ELSE applied_count
    /\ job_id' = 0
    /\ i' = i + 1
    /\ pc' = "cards"
    /\ apc' = "idle"
    /\ step' = 0
    /\ n_clicks' = 0
    /\ n_step_clicks' = 0
    /\ iter' = NoIter
    /\ session' = NoSession
    /\ decision' = NoDecision
    /\ UNCHANGED <<scrollVars, extractVars, rateVars, listVars,
                   breakerVars, repoVars>>
    /\ UNCHANGED <<runVars, unreadable, jobs_processed, page_num, job_cards, reviewed_count,
                   had_session, page_sessions, reopened>>

InitScrollIdle ==
    /\ spc = "idle"
    /\ scrollable_element = "none"
    /\ last_count = 0
    /\ no_new_jobs_count = 0
    /\ rounds = 0
    /\ current_count = 0
    /\ seen = <<>>
    /\ scroll_error = FALSE

InitExtractIdle ==
    /\ epc = "idle"
    /\ html = [main_content |-> FALSE, essentials |-> FALSE, elems |-> <<>>]
    /\ selector_idx = 0
    /\ jobs = <<>>

Callers == 1..NumCallers

InitRateIdle ==
    /\ rl_pc = [c \in Callers |-> "idle"]
    /\ daily_limit = 1
    /\ applications_today = 0
    /\ day_elapsed = FALSE
    /\ in_cooldown = FALSE

InitListIdle ==
    /\ g_pc = "idle"
    /\ consumer = "none"
    /\ g_max_jobs = 1
    /\ g_page_num = 1
    /\ total_collected = 0
    /\ page_jobs = 0
    /\ g_jobs = 0
    /\ extract_calls = 0
    /\ next_calls = 0
    /\ empty_at = 0

\* No call of the breaker has completed yet.
NoCall == [outcome |-> "none", before |-> "CLOSED", since |-> "none", probe |-> FALSE,
           invoked |-> FALSE, after |-> "CLOSED", count |-> 0]

\* A caller that is not inside call().
IdleCaller == [at |-> "idle", before |-> "CLOSED", since |-> "none"]

InitBreakerIdle ==
    /\ cb_pc = [c \in Callers |-> IdleCaller]
    /\ failure_threshold = 1
    /\ failure_count = 0
    /\ last_failure_time = "none"
    /\ state = "CLOSED"
    /\ cb_call = NoCall
    /\ streak = 0

\* No row: what get_by_job_id(...).first() gives for a job that is not stored.
NoApplication == [application_id |-> 0, job_id |-> 0, status |-> "none"]

\* No call of the repository was made yet.
NoRepoCall == [op |-> "none", job_id |-> 0, status |-> "none", stored |-> FALSE,
               before |-> {}, returned |-> NoApplication, found |-> FALSE]

InitRepoIdle ==
    /\ applications = {}
    /\ next_id = 0
    /\ repo_call = NoRepoCall

InitOthersIdle == InitRateIdle /\ InitListIdle /\ InitBreakerIdle /\ InitRepoIdle

NextApply ==
    \/ Finish
    \/ GetJobCards
    \/ NextCard
    \/ EndOfPage
    \/ GoToNextPage
    \/ ApplyEasy
    \/ ApplyModal
    \/ ApplyStep
    \/ ApplyDismiss
    \/ AfterApply

InitApplyRun == InitApply /\ InitScrollIdle /\ InitExtractIdle /\ InitOthersIdle

SpecApply == InitApplyRun /\ [][NextApply]_vars

\* apply_to_jobs is one coroutine that is awaited to its end: whenever it
\* can take a step, it takes one.
SpecApplyLive == SpecApply /\ WF_vars(NextApply)

----------------------------------------------------------------------------
\* Properties of apply_to_jobs and _apply_to_job (SpecApply)

\* C1, as stated: a session never performs more than max_steps clicks in all,
\* between its start and its end.
C1_AtMostMaxStepsClicks == n_clicks <= max_steps

\* C1, amended: a session performs at most max_steps step clicks (submit,
\* continue, review) and, with the Easy Apply click that opens it and the
\* Dismiss click that closes it, at most max_steps + 2 clicks in all.
C1_StepClicksBounded ==
    /\ n_step_clicks <= max_steps
    /\ n_clicks <= max_steps + 2
    /\ n_clicks <= n_step_clicks + 2

C1_Witness ==
    /\ apc = "returned"
    /\ n_step_clicks = max_steps
    /\ n_clicks = max_steps + 2
    /\ session.dismissed

\* C4: no application session is ever in progress for a job id the
\* persistence collaborator already holds.
C4_NoSessionForApplied == pc = "session" => job_id \notin applied_db

\* C5: within one run no session is started for a job whose session already
\* ended, whatever listing a next-page click displays.
C5_OneSessionPerJob == ~reopened

\* C7: the job is applied to if and only if its score reaches the threshold
\* or the scorer's recommendation is "yes" or "maybe".
C7_ProceedIffScoreOrRecommendation ==
    decision.made =>
        (decision.proceed <=>
            (decision.score >= min_match_score \/ decision.rec \in {"yes", "maybe"}))

C9_SubmitThenContinueThenReview ==
    /\ "submit" \in iter.present => iter.clicked = {"submit"}
    /\ "continue" \in iter.clicked => "submit" \notin iter.present
    /\ "review" \in iter.clicked => iter.present \cap {"submit", "continue"} = {}
    /\ Cardinality(iter.clicked) <= 1
    /\ iter.clicked \subseteq iter.present

C9_Witness ==
    /\ iter.present = {"submit", "continue", "review"}
    /\ iter.clicked = {"submit"}
    /\ session.submitted

C10_NoClickBeforeDialog ==
    /\ (n_step_clicks > 0 \/ session.dismissed \/ apc \in {"step", "dismiss"})
          => (session.easy_clicked /\ session.dialog)
    /\ (apc = "returned" /\ ~(session.easy_clicked /\ session.dialog))
          => /\ ~session.result
             /\ ~session.submitted
             /\ session.outcome \in {"abandoned", "failed"}
             /\ n_step_clicks = 0
             /\ n_clicks = (IF session.easy_clicked THEN 1 ELSE 0)

C10_RunContinues ==
    (apc = "returned" /\ ~(session.easy_clicked /\ session.dialog))
        => (pc' = "cards" /\ i' = i + 1 /\ applied_count' = applied_count)

\* C10: no submit, continue or review click (nor a dismiss click) happens
\* unless the Easy Apply control was clicked and a dialog was then found; a
\* session that misses either ends not submitted with no click after that
\* point, and the run goes on to the next card.
C10_StepsOnlyInDialog == [] C10_NoClickBeforeDialog /\ [][C10_RunContinues]_vars

C10_Witness ==
    /\ apc = "returned"
    /\ session.easy_clicked
    /\ ~session.dialog
    /\ session.outcome = "abandoned"
    /\ n_clicks = 1

\* The step loop has ended without a submit click: an iteration found none of
\* the three controls, or max_steps iterations each clicked continue or review.
C11_LoopEndedUnsubmitted ==
    /\ pc = "session"
    /\ apc = "dismiss"

C11_LoopEndCases ==
    C11_LoopEndedUnsubmitted =>
        /\ ~session.submitted
        /\ session.dismiss = "none"
        /\ \/ (iter.present = {} /\ iter.clicked = {} /\ iter.n = step + 1)
           \/ (step = max_steps /\ n_step_clicks = max_steps)

C11_DismissStep ==
    C11_LoopEndedUnsubmitted =>
        /\ apc' = "returned"
        /\ session'.dismiss # "none"
        /\ session'.dismissed = (session'.dismiss = "ok")
        /\ n_clicks' = n_clicks + (IF session'.dismiss = "ok" THEN 1 ELSE 0)
        /\ ~session'.submitted
        /\ ~session'.result
        /\ applied_count' = applied_count

C11_ReturnStep ==
    (pc = "session" /\ apc = "returned" /\ session.dismiss # "none")
        => (applied_count' = applied_count /\ pc' = "cards")

\* C11: when the step loop ends without a submit click (no control found in
\* an iteration, or max_steps iterations used), the next step of the session
\* looks for the Dismiss control and clicks it if it is there, the session
\* returns not submitted, and applied_count stays as it was.
C11_DismissThenNotSubmitted ==
    /\ [] C11_LoopEndCases
    /\ [][C11_DismissStep]_vars
    /\ [][C11_ReturnStep]_vars

C11_Witness ==
    /\ apc = "returned"
    /\ session.dismissed
    /\ step = max_steps
    /\ ~session.result

\* An error was raised inside _apply_to_job and its handler returned.
C13_Failed == pc = "session" /\ apc = "returned" /\ session.outcome = "failed"

C13_FailedEndsSession ==
    /\ session.outcome = "failed" => C13_Failed
    /\ C13_Failed =>
          /\ ~session.result
          /\ ~session.dismissed
          /\ session.dismiss \in {"none", "lookup_error", "click_error"}
          /\ session.submitted => iter.clicked = {"submit"}
          /\ iter.clicked = {} => ~session.submitted

C13_NextRecord ==
    C13_Failed =>
        /\ pc' = "cards"
        /\ apc' = "idle"
        /\ i' = i + 1
        /\ applied_count' = applied_count
        /\ n_clicks' = 0
        /\ UNCHANGED <<jobs_processed, reviewed_count, page_num, job_cards>>

C14_GateState ==
    /\ decision.made => decision.detail = "easy"
    /\ decision.detail \in {"unread", "no_easy"}
          => (~decision.made /\ ~decision.proceed /\ pc # "session" /\ apc = "idle")
    /\ (pc = "session" /\ apc = "easy")
          => /\ decision.made
             /\ decision.detail = "easy"
             /\ decision.proceed
             /\ decision.score >= min_match_score
    /\ (pc = "session") = (apc # "idle")

C14_SessionStart ==
    (pc # "session" /\ pc' = "session")
        => /\ pc = "cards"
           /\ apc' = "easy"
           /\ decision'.made /\ decision'.proceed /\ decision'.detail = "easy"
           /\ reviewed_count' = reviewed_count + 1
           /\ jobs_processed' = jobs_processed + 1

\* C14: _apply_to_job is entered only from the for loop of apply_to_jobs, for
\* a card whose details were read, whose detail view showed Easy Apply and
\* whose decision was to proceed; a card that is unread or without Easy
\* Apply is not scored and gets no session.
C14_SessionOnlyAfterProceed ==
    /\ [] C14_GateState
    /\ [][C14_SessionStart]_vars

C14_Witness ==
    /\ pc = "session"
    /\ apc = "easy"
    /\ decision.proceed
    /\ decision.detail = "easy"
    /\ i = 2
    /\ reviewed_count = 2

\* C17: every run of apply_to_jobs ends, whatever the page shows.
C17_RunEnds == <>(pc = "done")

C19_OneAtATime ==
    /\ (pc = "session") = (apc # "idle")
    /\ (pc = "session") = (job_id # 0)
    /\ pc \in {"cards", "session"} => (1 <= i /\ i <= job_cards + 1)
    /\ pc = "session" => i <= job_cards
    /\ pc = "nextpage" => (i = job_cards + 1 \/ jobs_processed >= max_jobs)

C19_InOrder ==
    /\ i' # i => (i' = i + 1 \/ (pc = "page" /\ i' = 1))
    /\ (pc = "session" /\ pc' = "session") => (i' = i /\ job_id' = job_id)
    /\ (pc = "nextpage" /\ jobs_processed < max_jobs /\ pc' # pc)
          => (i = job_cards + 1 /\ apc = "idle" /\ job_id = 0)
    /\ job_cards' # job_cards => pc = "page"

\* C19: the cards of a page are handled one after the other in list order,
\* a session belongs to the one card being handled, and the next page is
\* asked for only when every card of the page was handled (max_jobs not
\* reached) or max_jobs was reached (no page is asked for then).
C19_PageDoneBeforeNext ==
    /\ [] C19_OneAtATime
    /\ [][C19_InOrder]_vars

C19_Witness ==
    /\ pc = "page"
    /\ page_num = 2
    /\ job_cards = 2
    /\ i = 3
    /\ reviewed_count = 1
    /\ jobs_processed < max_jobs
    /\ had_session # {}

\* C22: when the scorer fails (ask_claude raises, gives no response, or gives
\* a response that cannot be parsed) the decision is made with score 0 and
\* no recommendation, and the job is skipped.
C22_ScorerFailureIsZero ==
    (decision.made /\ decision.scorer \in {"raise", "empty", "unparsable"})
        => /\ decision.score = 0
           /\ decision.rec = Absent
           /\ ~decision.proceed

\* C23: reading the detail view of a card never gives an absent result: a
\* card whose panel is missing or too short, or whose click raised, is still
\* returned as a record and goes on to the Easy Apply check and the decision.
C23_DetailNeverAbsent == decision.detail # "unread"

\* C24: a card is dropped for a too short detail panel only after the
\* panel was read twice.
C24_ShortPanelReadTwice ==
    (decision.detail = "unread" /\ decision.short_reads > 0) => decision.short_reads = 2

\* Scores in hundredths, 0.00 to 1.00.
ScoreRange == 0..100

\* C26: with the threshold and the recommendation of a decision held fixed,
\* a job that is applied to at its score is applied to at every higher
\* score, and a job that is skipped is skipped at every lower score.
C26_DecisionMonotonic ==
    decision.made =>
        /\ decision.proceed = ShouldApply(decision.score, decision.rec, min_match_score)
        /\ decision.proceed =>
              \A s2 \in ScoreRange :
                  s2 >= decision.score => ShouldApply(s2, decision.rec, min_match_score)
        /\ ~decision.proceed =>
              \A s2 \in ScoreRange :
                  s2 <= decision.score => ~ShouldApply(s2, decision.rec, min_match_score)

C26_Witness ==
    /\ decision.made
    /\ decision.proceed
    /\ decision.score = 70
    /\ min_match_score = 70
    /\ decision.rec = "no"

Min(a, b) == IF a < b THEN a ELSE b

\* The run ended on its first page (no next page was opened) and every card
\* it clicked gave its details.
SinglePageAllRead == pc = "done" /\ page_num = 1 /\ ~unreadable

\* C27: a fresh applicant run over a single page of n cards, all readable,
\* with no next page, reviews exactly min(n, max_jobs) jobs (at least one
\* when there is a card, never more than max_jobs); the value returned is
\* applied_count, which is at most reviewed_count.
C27_SinglePageReviewsMin ==
    /\ applied_count <= reviewed_count
    /\ SinglePageAllRead =>
          /\ reviewed_count = Min(job_cards, max_jobs)
          /\ jobs_processed = reviewed_count
          /\ job_cards >= 1 => reviewed_count >= 1
          /\ reviewed_count <= max_jobs

C27_Witness ==
    /\ SinglePageAllRead
    /\ job_cards = 2
    /\ max_jobs = 1
    /\ reviewed_count = 1
    /\ applied_count = 1

\* C12: once the submit control has been clicked the session is over: it
\* has returned, the submit click was the last click of the session (no
\* continue, review or dismiss click after it, no second submit click), and
\* the session reports success.
C12_SubmittedIsTerminal ==
    session.submitted =>
        /\ apc = "returned"
        /\ iter.clicked = {"submit"}
        /\ n_step_clicks = iter.n
        /\ ~session.dismissed
        /\ session.dismiss = "none"
        /\ session.result

----------------------------------------------------------------------------
\* JobScraper._scroll_job_list

Selectors == {"div.jobs-search-results-list", "div.scaffold-layout__list-container",
              "div.jobs-search-results", "main"}

InitScroll ==
    /\ spc = "find"
    /\ scrollable_element = "none"
    /\ last_count = 0
    /\ no_new_jobs_count = 0
    /\ rounds = 0
    /\ current_count = 0
    /\ seen = <<>>
    /\ scroll_error = FALSE

\* The counts observed so far, the last StableCap + 1 of them.
Observe(c) ==
    IF Len(seen) <= StableCap THEN Append(seen, c) ELSE Append(Tail(seen), c)

ScrollRaises ==
    /\ spc' = "raised"
    /\ scroll_error' = TRUE

\* except Exception: the error is printed and the call returns.
ScrollFails ==
    /\ spc' = "done"
    /\ scroll_error' = TRUE

\* Lines 278-295: the first selector that matches, else the window.
FindContainer ==
    /\ spc = "find"
    /\ \/ /\ \E sel \in Selectors \cup {"window"} : scrollable_element' = sel
          /\ spc' = "count"
          /\ UNCHANGED scroll_error
       \/ /\ ScrollFails
          /\ UNCHANGED scrollable_element
    /\ UNCHANGED <<last_count, no_new_jobs_count, rounds, current_count, seen>>
    /\ UNCHANGED <<applyVars, extractVars, rateVars, listVars,
                   breakerVars, repoVars>>

\* Lines 298-303: the initial count.
CountInitial ==
    /\ spc = "count"
    /\ \/ /\ \E c \in CountValues :
               /\ last_count' = c
               /\ seen' = Observe(c)
          /\ no_new_jobs_count' = 0
          /\ spc' = "round"
          /\ UNCHANGED scroll_error
       \/ /\ ScrollFails
          /\ UNCHANGED <<last_count, no_new_jobs_count, seen>>
    /\ UNCHANGED <<scrollable_element, rounds, current_count>>
    /\ UNCHANGED <<applyVars, extractVars, rateVars, listVars,
                   breakerVars, repoVars>>

\* Lines 331-338: stop on a count that stayed the same long enough.
StableStopAtThree(no_new, count) == no_new >= StableEnough
StableStopNoCap(no_new, count) == no_new >= StableEnough /\ count >= EnoughJobs
StableStop(no_new, count) ==
    \/ (no_new >= StableEnough /\ count >= EnoughJobs)
    \/ no_new >= StableCap

\* Line 344: a full page.
PageNeverFull(count) == FALSE
PageFull(count) == count >= PageSize

\* Lines 306-346: one scroll round: scroll, wait, recount, decide.
ScrollRound ==
    /\ spc = "round"
    /\ rounds < MaxScrolls
    /\ \/ /\ \E c \in CountValues :
               LET same == c = last_count
                   no_new == IF same THEN no_new_jobs_count + 1 ELSE 0
                   stop == (same /\ StableStop(no_new, c)) \/ PageFull(c)
               IN  /\ current_count' = c
                   /\ seen' = Observe(c)
                   /\ no_new_jobs_count' = no_new
                   /\ last_count' = c
                   /\ spc' = IF stop \/ rounds + 1 = MaxScrolls THEN "final" ELSE "round"
          /\ rounds' = rounds + 1
          /\ UNCHANGED scroll_error
       \/ /\ ScrollFails
          /\ UNCHANGED <<current_count, seen, no_new_jobs_count, last_count, rounds>>
    /\ UNCHANGED scrollable_element
    /\ UNCHANGED <<applyVars, extractVars, rateVars, listVars,
                   breakerVars, repoVars>>

\* Lines 349-350: the final count, only printed.
FinalCount ==
    /\ spc = "final"
    /\ \/ /\ spc' = "done"
          /\ UNCHANGED scroll_error
       \/ ScrollFails
    /\ UNCHANGED <<scrollable_element, last_count, no_new_jobs_count, rounds,
                   current_count, seen>>
    /\ UNCHANGED <<applyVars, extractVars, rateVars, listVars,
                   breakerVars, repoVars>>

InitApplyIdle ==
    /\ pc = "idle"
    /\ max_jobs = 0
    /\ min_match_score = 0
    /\ jobs_processed = 0
    /\ page_num = 0
    /\ job_cards = 0
    /\ job_id = 0
    /\ i = 0
    /\ reviewed_count = 0
    /\ applied_count = 0
    /\ unreadable = FALSE
    /\ decision = NoDecision
    /\ apc = "idle"
    /\ step = 0
    /\ n_clicks = 0
    /\ n_step_clicks = 0
    /\ iter = NoIter
    /\ session = NoSession
    /\ applied_db = {}
    /\ had_session = {}
    /\ page_sessions = {}
    /\ reopened = FALSE

NextScroll ==
    \/ FindContainer
    \/ CountInitial
    \/ ScrollRound
    \/ FinalCount

InitScrollRun == InitScroll /\ InitApplyIdle /\ InitExtractIdle /\ InitOthersIdle

SpecScroll == InitScrollRun /\ [][NextScroll]_vars

----------------------------------------------------------------------------
\* Properties of _scroll_job_list (SpecScroll)

\* The count stayed the same over the last n rounds: each of them found the
\* count of the round (or the initial count) before it.
Unchanged(n) ==
    /\ Len(seen) > n
    /\ \A k \in 0..(n - 1) : seen[Len(seen) - k] = seen[Len(seen) - k - 1]

LastCount == seen[Len(seen)]
LoopLeft == spc \in {"final", "done"}

\* The stopping rule of the claim, for the round just completed.
StopRule ==
    \/ (Unchanged(StableEnough) /\ LastCount >= EnoughJobs)
    \/ Unchanged(StableCap)
    \/ LastCount >= PageSize
    \/ rounds = MaxScrolls

\* C2: without an interaction error the loop is left at the end of the first
\* round in which (a) the count was unchanged for 3 rounds and is at least 20,
\* (b) it was unchanged for 5 rounds, (c) it is at least 25 or (d) 15 rounds
\* were made, and at no earlier round; after the counts 12, 23, 23, 23, 23 it
\* is left with 3 no-growth rounds counted and the count 23.
C2_StopsAtFirstMatch ==
    /\ (spc = "round" /\ rounds >= 1) => ~StopRule
    /\ (spc = "round" /\ rounds = 0) => Len(seen) = 1
    /\ (LoopLeft /\ ~scroll_error) => (rounds >= 1 /\ StopRule)
    /\ (rounds >= 4 /\ SubSeq(seen, Len(seen) - 4, Len(seen)) = <<12, 23, 23, 23, 23>>)
          => (LoopLeft /\ no_new_jobs_count = 3 /\ current_count = 23)
    /\ (rounds >= 3 /\ spc = "round"
          => SubSeq(seen, Len(seen) - 3, Len(seen)) # <<23, 23, 23, 23>>)

C2_Witness ==
    /\ spc = "final"
    /\ rounds = 4
    /\ seen = <<12, 23, 23, 23, 23>>
    /\ no_new_jobs_count = 3
    /\ current_count = 23

\* C3, as stated: once the count has been unchanged for 3 rounds the loop is
\* left, whatever the count is.
C3_StableWithinThree == Unchanged(StableEnough) => LoopLeft

\* C3, amended: once the count has been unchanged for 5 rounds the loop is
\* left, and already after 3 unchanged rounds when the count is at least 20;
\* the loop never makes more than 15 rounds.
C3_StableWithinFive ==
    /\ Unchanged(StableCap) => LoopLeft
    /\ (Unchanged(StableEnough) /\ LastCount >= EnoughJobs) => LoopLeft
    /\ rounds <= MaxScrolls
    /\ (rounds = MaxScrolls => LoopLeft)

C3_Witness ==
    /\ spc = "final"
    /\ rounds = StableCap
    /\ seen = <<12, 12, 12, 12, 12, 12>>

\* The page was fully loaded when the call began: every round of the call
\* found the count the call started with.
FullyLoaded ==
    /\ rounds >= 1
    /\ Len(seen) = rounds + 1
    /\ Unchanged(rounds)

\* C21, as stated: on a fully loaded page the call makes exactly one scroll
\* round and leaves the loop, whatever the count is.
C21_OneRoundWhenLoaded == (spc = "final" /\ FullyLoaded) => rounds = 1

\* The rounds a call makes on a fully loaded page showing c cards.
StableRounds(c) ==
    IF c >= PageSize THEN 1
    ELSE IF c >= EnoughJobs THEN StableEnough
    ELSE StableCap

\* C21, amended: on a fully loaded page the call makes one round when the
\* count is at least 25, three rounds when it is 20 to 24 and five rounds
\* when it is below 20, all of them finding no new card, and then leaves the
\* loop; it does not leave it earlier.
C21_StableRoundsWhenLoaded ==
    /\ (spc = "final" /\ FullyLoaded)
          => (rounds = StableRounds(LastCount) /\ no_new_jobs_count = rounds)
    /\ (spc = "round" /\ FullyLoaded) => rounds < StableRounds(LastCount)

C21_Witness ==
    /\ spc = "final"
    /\ FullyLoaded
    /\ LastCount = 23
    /\ rounds = StableEnough

C20_ReturnsNormally ==
    /\ spc \in {"find", "count", "round", "final", "done"}
    /\ scroll_error => spc = "done"
    /\ rounds <= MaxScrolls

C20_ErrorEndsLoop ==
    /\ (~scroll_error /\ scroll_error')
          => /\ spc' = "done"
             /\ UNCHANGED <<scrollable_element, last_count, no_new_jobs_count, rounds,
                            current_count, seen>>
    /\ scroll_error => UNCHANGED scrollVars

\* C20: _scroll_job_list never ends by raising: an error in the container
\* lookup, the initial count, a scroll round or the final count makes the
\* call return in that step, with no further scroll or count and with the
\* cards loaded so far left as they are.
C20_ScrollNeverRaises ==
    /\ [] C20_ReturnsNormally
    /\ [][C20_ErrorEndsLoop]_vars

C20_Witness ==
    /\ scroll_error
    /\ spc = "done"
    /\ rounds = 2
    /\ no_new_jobs_count = 1
    /\ last_count = 12

----------------------------------------------------------------------------
\* extract_jobs_from_html (extract_jobs.py)

\* job_selectors, in the order they are tried; the last is [data-job-id].
job_selectors == <<"jobs-semantic-search-job-details-wrapper", "job-card-list__entity",
                   "job-card-container", "data-job-id">>

\* A candidate element: its classes, its data-job-id attribute and the job id
\* of the /jobs/view/<id> link inside it (0: none). Separators and ads are
\* the elements with neither.
ElementClasses == {{}, {"job-card-container"},
                   {"job-card-list__entity", "job-card-container"},
                   {"jobs-semantic-search-job-details-wrapper"}}
Elements ==
    [classes : ElementClasses, data_job_id : JobIds, link_id : {0}]
    \cup [classes : ElementClasses, data_job_id : {0}, link_id : {0} \cup JobIds]

\* A page: whether it holds div.jobs-details__main-content (a single job's
\* detail page), whether title and company are found there, its elements.
Pages ==
    [main_content : {FALSE}, essentials : {FALSE},
     elems : UNION {[1..n -> Elements] : n \in 0..MaxElems}]
    \cup [main_content : {TRUE}, essentials : BOOLEAN,
          elems : UNION {[1..n -> Elements] : n \in 0..MaxElems}]

\* soup.select(selector): does the element match.
Matches(e, selector) ==
    IF selector = "data-job-id" THEN e.data_job_id # 0 ELSE selector \in e.classes

\* _extract_job_from_element: the data-job-id, else the id of the link; 0
\* stands for None.
_extract_job_from_element(e) ==
    IF e.data_job_id # 0 THEN e.data_job_id ELSE e.link_id

RECURSIVE SelectJobs(_, _)
\* Lines 46-50 for one selector: a record for every matching element, in
\* document order, that has an id.
SelectJobs(elems, selector) ==
    IF elems = <<>> THEN <<>>
    ELSE LET e == Head(elems)
             jid == _extract_job_from_element(e)
             rest == SelectJobs(Tail(elems), selector)
         IN  IF Matches(e, selector) /\ jid # 0
             THEN <<[job_id |-> jid]>> \o rest
             ELSE rest

RECURSIVE FirstLink(_)
\* _extract_single_job_details, lines 62-66: the id of the first job link.
FirstLink(elems) ==
    IF elems = <<>> THEN 0
    ELSE IF Head(elems).link_id # 0 THEN Head(elems).link_id
    ELSE FirstLink(Tail(elems))

\* _extract_single_job_details: a record only with id, title and company.
_extract_single_job_details(page) ==
    IF FirstLink(page.elems) # 0 /\ page.essentials
    THEN <<[job_id |-> FirstLink(page.elems)]>>
    ELSE <<>>

InitExtract ==
    /\ epc = "start"
    /\ html \in Pages
    /\ selector_idx = 0
    /\ jobs = <<>>

\* Lines 24-34: a single job's detail page gives at most one record.
ExtractSingle ==
    /\ epc = "start"
    /\ html.main_content
    /\ jobs' = _extract_single_job_details(html)
    /\ epc' = "done"
    /\ UNCHANGED <<html, selector_idx>>
    /\ UNCHANGED <<applyVars, scrollVars, rateVars, listVars,
                   breakerVars, repoVars>>

\* Lines 35-43: otherwise the job cards are looked for.
ExtractList ==
    /\ epc = "start"
    /\ ~html.main_content
    /\ epc' = "selectors"
    /\ UNCHANGED <<html, selector_idx, jobs>>
    /\ UNCHANGED <<applyVars, scrollVars, rateVars, listVars,
                   breakerVars, repoVars>>

\* Lines 45-50: the next selector of job_selectors; its records are appended.
ExtractSelector ==
    /\ epc = "selectors"
    /\ selector_idx < Len(job_selectors)
    /\ selector_idx' = selector_idx + 1
    /\ jobs' = jobs \o SelectJobs(html.elems, job_selectors[selector_idx + 1])
    /\ UNCHANGED <<epc, html>>
    /\ UNCHANGED <<applyVars, scrollVars, rateVars, listVars,
                   breakerVars, repoVars>>

\* Line 52: return jobs.
ExtractReturn ==
    /\ epc = "selectors"
    /\ selector_idx = Len(job_selectors)
    /\ epc' = "done"
    /\ UNCHANGED <<html, selector_idx, jobs>>
    /\ UNCHANGED <<applyVars, scrollVars, rateVars, listVars,
                   breakerVars, repoVars>>

NextExtract ==
    \/ ExtractSingle
    \/ ExtractList
    \/ ExtractSelector
    \/ ExtractReturn

InitExtractRun == InitExtract /\ InitApplyIdle /\ InitScrollIdle /\ InitOthersIdle

SpecExtract == InitExtractRun /\ [][NextExtract]_vars

----------------------------------------------------------------------------
\* Properties of extract_jobs_from_html (SpecExtract)

\* The candidates of a page: the elements one of the selectors matches.
IsCandidate(e) == \E k \in 1..Len(job_selectors) : Matches(e, job_selectors[k])

RECURSIVE FirstSeen(_, _)
\* The ids of the candidates in document order, every id once.
FirstSeen(elems, had) ==
    IF elems = <<>> THEN <<>>
    ELSE LET e == Head(elems)
             jid == IF e.data_job_id # 0 THEN e.data_job_id ELSE e.link_id
         IN  IF IsCandidate(e) /\ jid # 0 /\ jid \notin had
             THEN <<[job_id |-> jid]>> \o FirstSeen(Tail(elems), had \cup {jid})
             ELSE FirstSeen(Tail(elems), had)

\* C6: the records extracted from a listing are its distinct job ids, each
\* once, in first-seen order, whatever duplicates and id-less candidates the
\* page holds.
C6_DedupFirstSeen ==
    (epc = "done" /\ ~html.main_content) => jobs = FirstSeen(html.elems, {})

RECURSIVE FirstPattern(_, _)
\* The records of the first selector, from the k-th on, that gives any.
FirstPattern(elems, k) ==
    IF k > Len(job_selectors) THEN <<>>
    ELSE LET found == SelectJobs(elems, job_selectors[k])
         IN  IF found # <<>> THEN found ELSE FirstPattern(elems, k + 1)

\* C25: the records extracted from a listing are those of one selector, the
\* first in the order of job_selectors that yields any, and of no other.
C25_FirstPatternOnly ==
    (epc = "done" /\ ~html.main_content) => jobs = FirstPattern(html.elems, 1)

----------------------------------------------------------------------------
\* RateLimiter.acquire_apply (src/utils/rate_limiter.py), called by coroutines
\* of one event loop: the code between two awaits runs without interruption,
\* every await asyncio.sleep lets the other calls run.

InitRate ==
    /\ rl_pc = [c \in Callers |-> "call"]
    /\ daily_limit \in 1..MaxLimit
    /\ applications_today = 0
    /\ day_elapsed = FALSE
    /\ in_cooldown = FALSE

\* The clock: 24 hours since last_reset have passed.
DayPasses ==
    /\ ~day_elapsed
    /\ \E c \in Callers : rl_pc[c] \notin {"idle", "limited", "submitted", "not_submitted"}
    /\ day_elapsed' = TRUE
    /\ UNCHANGED <<rl_pc, daily_limit, applications_today, in_cooldown>>
    /\ UNCHANGED <<applyVars, scrollVars, extractVars, listVars,
                   breakerVars, repoVars>>

\* The clock: min_cooldown seconds since last_action_time have passed.
CooldownPasses ==
    /\ in_cooldown
    /\ in_cooldown' = FALSE
    /\ UNCHANGED <<rl_pc, daily_limit, applications_today, day_elapsed>>
    /\ UNCHANGED <<applyVars, scrollVars, extractVars, listVars,
                   breakerVars, repoVars>>

\* _check_daily_reset: the counter after the reset check.
_check_daily_reset(count, elapsed) == IF elapsed THEN 0 ELSE count

\* Line 45: the daily limit is reached.
LimitReached(count, limit) == count >= limit

\* Lines 43-50: the reset check, the limit check (RateLimitExceeded when the
\* limit is reached), and _wait_for_cooldown up to its await.
AcquireCheck(c) ==
    /\ rl_pc[c] = "call"
    /\ LET count == _check_daily_reset(applications_today, day_elapsed)
       IN  /\ applications_today' = count
           /\ day_elapsed' = FALSE
           /\ rl_pc' = [rl_pc EXCEPT ![c] =
                          IF LimitReached(count, daily_limit) THEN "limited"
                          ELSE IF in_cooldown THEN "cooldown"
                          ELSE "delay"]
    /\ UNCHANGED <<daily_limit, in_cooldown>>
    /\ UNCHANGED <<applyVars, scrollVars, extractVars, listVars,
                   breakerVars, repoVars>>

\* Lines 72-73: the cooldown sleep is over; the random delay begins.
AcquireCooldown(c) ==
    /\ rl_pc[c] = "cooldown"
    /\ rl_pc' = [rl_pc EXCEPT ![c] = "delay"]
    /\ UNCHANGED <<daily_limit, applications_today, day_elapsed, in_cooldown>>
    /\ UNCHANGED <<applyVars, scrollVars, extractVars, listVars,
                   breakerVars, repoVars>>

\* Lines 54-57: the delay is over; count the application, stamp the time.
AcquireIncrement(c) ==
    /\ rl_pc[c] = "delay"
    /\ applications_today' = applications_today + 1
    /\ in_cooldown' = TRUE
    /\ rl_pc' = [rl_pc EXCEPT ![c] = "acquired"]
    /\ UNCHANGED <<daily_limit, day_elapsed>>
    /\ UNCHANGED <<applyVars, scrollVars, extractVars, listVars,
                   breakerVars, repoVars>>

\* The application the permission was acquired for: _apply_to_job returns
\* True (submitted) or False (abandoned or failed).
ApplyAfterAcquire(c) ==
    /\ rl_pc[c] = "acquired"
    /\ \E result \in BOOLEAN :
         rl_pc' = [rl_pc EXCEPT ![c] = IF result THEN "submitted" ELSE "not_submitted"]
    /\ UNCHANGED <<daily_limit, applications_today, day_elapsed, in_cooldown>>
    /\ UNCHANGED <<applyVars, scrollVars, extractVars, listVars,
                   breakerVars, repoVars>>

RateCheck == \E c \in Callers : AcquireCheck(c)
RateCooldown == \E c \in Callers : AcquireCooldown(c)
RateIncrement == \E c \in Callers : AcquireIncrement(c)
RateApply == \E c \in Callers : ApplyAfterAcquire(c)

NextRate ==
    \/ DayPasses
    \/ CooldownPasses
    \/ RateCheck
    \/ RateCooldown
    \/ RateIncrement
    \/ RateApply

InitRateRun == InitRate /\ InitApplyIdle /\ InitScrollIdle /\ InitExtractIdle /\ InitListIdle /\
    InitBreakerIdle /\ InitRepoIdle

SpecRate == InitRateRun /\ [][NextRate]_vars

----------------------------------------------------------------------------
\* Properties of RateLimiter (SpecRate)

\* C15: applications_today goes up only in a step that confirms a submitted
\* application, so no call holds a counted permission whose application is
\* still to be made or ended not submitted.
C15_CountedOnlyWhenSubmitted ==
    [][applications_today' > applications_today
          => \E c \in Callers : rl_pc[c] # "submitted" /\ rl_pc'[c] = "submitted"]_vars

\* C16: whatever the interleaving of the running acquire_apply calls,
\* applications_today never exceeds daily_limit.
C16_NeverAboveDailyLimit == applications_today <= daily_limit

----------------------------------------------------------------------------
\* JobScraper.get_job_listings_by_page, an async generator, and who iterates
\* it: get_job_listings (scraper.py:22-29), which stops asking once it holds
\* max_jobs records, or a plain async for loop that takes every page.

Consumers == {"get_job_listings", "async_for"}

InitList ==
    /\ g_pc = "loop"
    /\ consumer \in Consumers
    /\ g_max_jobs \in 1..MaxListJobs
    /\ g_page_num = 1
    /\ total_collected = 0
    /\ page_jobs = 0
    /\ g_jobs = 0
    /\ extract_calls = 0
    /\ next_calls = 0
    /\ empty_at = 0

\* Line 37: while total_collected < max_jobs and page_num <= max_pages.
InListLoopNoCap == total_collected < g_max_jobs
InListLoop == total_collected < g_max_jobs /\ g_page_num <= max_pages

\* The while condition fails: the generator is exhausted.
ListExit ==
    /\ g_pc = "loop"
    /\ ~InListLoop
    /\ g_pc' = "done"
    /\ UNCHANGED <<consumer, g_max_jobs, g_page_num, total_collected, page_jobs, g_jobs,
                   extract_calls, next_calls, empty_at>>
    /\ UNCHANGED <<applyVars, scrollVars, extractVars, rateVars,
                   breakerVars, repoVars>>

\* Lines 41-45: _extract_jobs_from_page (an empty list on every failure of
\* its own); nothing extracted ends the loop.
ListExtract ==
    /\ g_pc = "loop"
    /\ InListLoop
    /\ extract_calls' = extract_calls + 1
    /\ \E n \in 0..MaxCards :
         /\ page_jobs' = n
         /\ empty_at' = IF n = 0 THEN extract_calls + 1 ELSE empty_at
         /\ g_pc' = IF NoJobs(n) THEN "done" ELSE "yield"
    /\ UNCHANGED <<consumer, g_max_jobs, g_page_num, total_collected, g_jobs, next_calls>>
    /\ UNCHANGED <<applyVars, scrollVars, extractVars, rateVars,
                   breakerVars, repoVars>>

\* Line 48: page_jobs[:max_jobs - total_collected].
jobs_to_yield == IF page_jobs <= g_max_jobs - total_collected
                 THEN page_jobs ELSE g_max_jobs - total_collected

\* Lines 48-56 and 25-28: the page is yielded; get_job_listings extends its
\* list and stops iterating at max_jobs records; when the generator is
\* resumed it counts the page and stops at max_jobs.
ListYield ==
    /\ g_pc = "yield"
    /\ g_jobs' = g_jobs + jobs_to_yield
    /\ IF consumer = "get_job_listings" /\ g_jobs + jobs_to_yield >= g_max_jobs
       THEN /\ g_pc' = "done"
            /\ UNCHANGED total_collected
       ELSE /\ total_collected' = total_collected + jobs_to_yield
            /\ g_pc' = IF total_collected + jobs_to_yield >= g_max_jobs
                       THEN "done" ELSE "next"
    /\ UNCHANGED <<consumer, g_max_jobs, g_page_num, page_jobs, extract_calls, next_calls,
                   empty_at>>
    /\ UNCHANGED <<applyVars, scrollVars, extractVars, rateVars,
                   breakerVars, repoVars>>

\* Lines 58-66: _go_to_next_page (False when no enabled button is found or
\* an interaction raises); without a next page the loop ends.
ListNextPage ==
    /\ g_pc = "next"
    /\ next_calls' = next_calls + 1
    /\ \E has_next \in BOOLEAN :
         IF has_next
         THEN /\ g_page_num' = g_page_num + 1
              /\ g_pc' = "loop"
         ELSE /\ g_pc' = "done"
              /\ UNCHANGED g_page_num
    /\ UNCHANGED <<consumer, g_max_jobs, total_collected, page_jobs, g_jobs, extract_calls,
                   empty_at>>
    /\ UNCHANGED <<applyVars, scrollVars, extractVars, rateVars,
                   breakerVars, repoVars>>

NextList ==
    \/ ListExit
    \/ ListExtract
    \/ ListYield
    \/ ListNextPage

InitListRun == InitList /\ InitApplyIdle /\ InitScrollIdle /\ InitExtractIdle /\ InitRateIdle /\
    InitBreakerIdle /\ InitRepoIdle

SpecList == InitListRun /\ [][NextList]_vars

\* Either pagination loop runs: get_job_listings_by_page or apply_to_jobs.
InitPaging == InitListRun \/ InitApplyRun

NextPaging ==
    \/ ListExit
    \/ ListExtract
    \/ ListYield
    \/ ListNextPage
    \/ Finish
    \/ GetJobCards
    \/ NextCard
    \/ EndOfPage
    \/ GoToNextPage
    \/ ApplyEasy
    \/ ApplyModal
    \/ ApplyStep
    \/ ApplyDismiss
    \/ AfterApply

SpecPaging == InitPaging /\ [][NextPaging]_vars

----------------------------------------------------------------------------
\* Properties of the pagination loops (SpecPaging)

\* get_job_listings_by_page: the empty extraction was the last one, and every
\* next-page request was made before it, one after each earlier extraction.
C18_ListStopsOnEmpty ==
    empty_at # 0 =>
        /\ g_pc = "done"
        /\ page_jobs = 0
        /\ extract_calls = empty_at
        /\ next_calls = empty_at - 1

\* apply_to_jobs: cards are handled and a next page is asked for only on a
\* page that gave cards.
C18_ApplyNeedsCards ==
    pc \in {"cards", "nextpage", "session"} => job_cards > 0

\* apply_to_jobs: a page without cards ends the run in that very step, and
\* the end of the run is final.
C18_ApplyStopsOnEmpty ==
    /\ (pc = "page" /\ pc' # "page" /\ job_cards' = 0) => pc' = "done"
    /\ pc = "done" => pc' = "done"
    /\ g_pc = "done" => (g_pc' = "done" /\ UNCHANGED listVars)

\* C18: an extraction that yields nothing ends the pagination loop at once,
\* in get_job_listings_by_page and in apply_to_jobs alike: no next-page
\* navigation is requested after it and nothing is extracted again.
C18_EmptyPageEndsLoop ==
    /\ [] C18_ListStopsOnEmpty
    /\ [] C18_ApplyNeedsCards
    /\ [][C18_ApplyStopsOnEmpty]_vars

C18_Witness ==
    /\ g_pc = "done"
    /\ empty_at = 3
    /\ next_calls = 2
    /\ total_collected < g_max_jobs

----------------------------------------------------------------------------
\* Properties of get_job_listings_by_page and get_job_listings (SpecList)

\* return jobs[:max_jobs], line 29.
ListingsReturned == Min(g_jobs, g_max_jobs)

\* A next page is requested only below max_jobs yielded records.
C28_NoNextPageAtMax ==
    next_calls' # next_calls => (g_jobs < g_max_jobs /\ total_collected < g_max_jobs)

\* C28: get_job_listings_by_page extracts at most max_pages (5) pages and
\* yields at most max_jobs records in total whatever the pages hold and
\* however next-page navigation goes; it requests no next page once max_jobs
\* records were yielded; get_job_listings returns at most max_jobs records.
C28_ListBounded ==
    /\ [](extract_calls <= max_pages)
    /\ [](g_jobs <= g_max_jobs /\ total_collected <= g_jobs)
    /\ [](next_calls <= extract_calls)
    /\ [](ListingsReturned <= g_max_jobs)
    /\ [][C28_NoNextPageAtMax]_vars

\* Five pages were extracted and the fifth was followed by a next-page request.
C28_Witness ==
    /\ g_pc = "done"
    /\ extract_calls = max_pages
    /\ next_calls = max_pages
    /\ g_jobs < g_max_jobs

----------------------------------------------------------------------------
\* CircuitBreaker (src/utils/rate_limiter.py). call() is a coroutine: the
\* code up to await func(...) runs in one piece, then func runs while other
\* callers may enter, then the outcome is recorded in one piece.

MaxFailures == MaxThreshold + 2

InitBreaker ==
    /\ cb_pc = [c \in Callers |-> IdleCaller]
    /\ failure_threshold \in 1..MaxThreshold
    /\ failure_count = 0
    /\ last_failure_time = "none"
    /\ state = "CLOSED"
    /\ cb_call = NoCall
    /\ streak = 0

\* Lines 119-124: no failure on record, or recovery_timeout has elapsed
\* since the last one.
_should_attempt_reset(t) == t = "none" \/ t = "old"

InFlight == Cardinality({c \in Callers : cb_pc[c].at # "idle"})

\* Lines 105-112: call() up to the await. While OPEN the call is refused
\* unless a reset may be attempted, which makes it the HALF_OPEN probe.
BreakerCall(c) ==
    /\ cb_pc[c].at = "idle"
    /\ failure_count + InFlight < MaxFailures
    /\ IF state = "OPEN"
       THEN IF _should_attempt_reset(last_failure_time)
            THEN /\ state' = "HALF_OPEN"
                 /\ cb_pc' = [cb_pc EXCEPT ![c] = [at |-> "probe", before |-> state,
                                                   since |-> last_failure_time]]
                 /\ UNCHANGED cb_call
            ELSE /\ cb_call' = [outcome |-> "rejected", before |-> state,
                                since |-> last_failure_time, probe |-> FALSE,
                                invoked |-> FALSE, after |-> state,
                                count |-> failure_count]
                 /\ UNCHANGED <<state, cb_pc>>
       ELSE /\ cb_pc' = [cb_pc EXCEPT ![c] = [at |-> "in_func", before |-> state,
                                              since |-> last_failure_time]]
            /\ UNCHANGED <<state, cb_call>>
    /\ UNCHANGED <<failure_threshold, failure_count, last_failure_time, streak>>
    /\ UNCHANGED <<applyVars, scrollVars, extractVars, rateVars, listVars, repoVars>>

\* What func does: it returns, raises expected_exception, or raises
\* something else (an exception outside expected_exception, a cancellation).
Outcomes == {"success", "expected", "unexpected"}

\* Lines 126-138 and 114-117: _on_success, _on_failure, or neither.
BreakerReturn(c) ==
    /\ cb_pc[c].at # "idle"
    /\ \E outcome \in Outcomes :
         /\ CASE outcome = "success" ->
                   /\ failure_count' = 0
                   /\ state' = "CLOSED"
                   /\ last_failure_time' = "none"
                   /\ streak' = 0
              [] outcome = "expected" ->
                   /\ failure_count' = failure_count + 1
                   /\ last_failure_time' = "recent"
                   /\ state' = IF failure_count + 1 >= failure_threshold
                               THEN "OPEN" ELSE state
                   /\ streak' = streak + 1
              [] OTHER ->
                   /\ UNCHANGED <<failure_count, state, last_failure_time>>
                   /\ streak' = 0
         /\ cb_call' = [outcome |-> outcome, before |-> cb_pc[c].before,
                        since |-> cb_pc[c].since, probe |-> cb_pc[c].at = "probe",
                        invoked |-> TRUE, after |-> state', count |-> failure_count']
    /\ cb_pc' = [cb_pc EXCEPT ![c] = IdleCaller]
    /\ UNCHANGED failure_threshold
    /\ UNCHANGED <<applyVars, scrollVars, extractVars, rateVars, listVars, repoVars>>

\* recovery_timeout seconds pass after the last failure.
BreakerTimeout ==
    /\ last_failure_time = "recent"
    /\ last_failure_time' = "old"
    /\ UNCHANGED <<cb_pc, failure_threshold, failure_count, state, cb_call, streak>>
    /\ UNCHANGED <<applyVars, scrollVars, extractVars, rateVars, listVars, repoVars>>

\* Lines 144-148: reset().
BreakerReset ==
    /\ failure_count' = 0
    /\ last_failure_time' = "none"
    /\ state' = "CLOSED"
    /\ streak' = 0
    /\ UNCHANGED <<cb_pc, failure_threshold, cb_call>>
    /\ UNCHANGED <<applyVars, scrollVars, extractVars, rateVars, listVars, repoVars>>

BreakerCallStep == \E c \in Callers : BreakerCall(c)
BreakerReturnStep == \E c \in Callers : BreakerReturn(c)

NextBreaker ==
    \/ BreakerCallStep
    \/ BreakerReturnStep
    \/ BreakerTimeout
    \/ BreakerReset

InitBreakerRun ==
    InitBreaker /\ InitApplyIdle /\ InitScrollIdle /\ InitExtractIdle /\ InitRateIdle /\
    InitListIdle /\ InitRepoIdle

SpecBreaker == InitBreakerRun /\ [][NextBreaker]_vars

----------------------------------------------------------------------------
\* Properties of CircuitBreaker (SpecBreaker)

Completed == cb_call.outcome # "none"

\* failure_threshold expected failures in a row leave the breaker OPEN.
C29_ThresholdOpens ==
    (cb_call.outcome = "expected" /\ streak >= failure_threshold) => cb_call.after = "OPEN"

\* A call made while OPEN within recovery_timeout of the last failure is
\* refused without running func; OPEN always has a last failure on record.
C29_OpenRejects ==
    /\ state = "OPEN" => last_failure_time # "none"
    /\ (Completed /\ cb_call.before = "OPEN" /\ cb_call.since = "recent") =>
          (cb_call.outcome = "rejected" /\ ~cb_call.invoked)

\* A call made while OPEN after the timeout runs func as the probe.
C29_ProbeAfterTimeout ==
    (Completed /\ cb_call.before = "OPEN" /\ cb_call.since = "old") =>
        (cb_call.probe /\ cb_call.invoked)

\* The probe's success closes the breaker with failure_count 0.
C29_ProbeSuccessCloses ==
    (cb_call.probe /\ cb_call.outcome = "success") =>
        (cb_call.after = "CLOSED" /\ cb_call.count = 0)

\* The probe's failure opens the breaker again.
C29_ProbeFailureOpens ==
    (cb_call.probe /\ cb_call.outcome = "expected") => cb_call.after = "OPEN"

\* No completed call leaves the breaker HALF_OPEN.
C29_NotLeftHalfOpen == Completed => cb_call.after # "HALF_OPEN"

\* C29: failure_threshold consecutive expected failures open the breaker;
\* while OPEN and before recovery_timeout has elapsed every call is refused
\* without invoking func; the first call after the timeout is the HALF_OPEN
\* probe, whose success sets CLOSED with failure_count 0 and whose failure
\* sets OPEN again; no completed call leaves the breaker HALF_OPEN.
C29_BreakerCycle ==
    /\ C29_ThresholdOpens
    /\ C29_OpenRejects
    /\ C29_ProbeAfterTimeout
    /\ C29_ProbeSuccessCloses
    /\ C29_ProbeFailureOpens
    /\ C29_NotLeftHalfOpen

----------------------------------------------------------------------------
\* ApplicationRepository (src/database/repository.py) over the applications
\* table (src/database/models.py). A row is kept as its application_id, its
\* job_id and its status; status stands for the fields update() can write.

Statuses == {"pending", "applied"}
ApplicationIds == 1..MaxApps

InitRepo ==
    /\ applications = {}
    /\ next_id = 0
    /\ repo_call = NoRepoCall

\* Lines 48-52: get(application_id), None when there is no such row.
get(application_id) ==
    IF \E a \in applications : a.application_id = application_id
    THEN CHOOSE a \in applications : a.application_id = application_id
    ELSE NoApplication

\* Lines 54-58: get_by_job_id(job_id), the first row with that job_id.
get_by_job_id(jid) ==
    IF \E a \in applications : a.job_id = jid
    THEN CHOOSE a \in applications : a.job_id = jid
    ELSE NoApplication

\* Lines 149-155: exists(job_id).
exists(jid) == \E a \in applications : a.job_id = jid

\* models.py line 31, job_id unique=True: the commit of a second row with a
\* stored job_id raises IntegrityError.
NoUniqueConstraint(jid) == FALSE
UniqueViolation(jid) == \E a \in applications : a.job_id = jid

\* Lines 20-46: create. The row is added and committed; on IntegrityError
\* the session is rolled back and the stored row is returned.
RepoCreate ==
    /\ \E jid \in JobIds, st \in Statuses :
          LET call == [op |-> "create", job_id |-> jid, status |-> st,
                       stored |-> exists(jid), before |-> applications,
                       returned |-> NoApplication, found |-> FALSE]
          IN  IF UniqueViolation(jid)
              THEN /\ repo_call' = [call EXCEPT !.returned = get_by_job_id(jid)]
                   /\ UNCHANGED <<applications, next_id>>
              ELSE /\ next_id < MaxApps
                   /\ LET db_application == [application_id |-> next_id + 1,
                                             job_id |-> jid, status |-> st]
                      IN  /\ applications' = applications \cup {db_application}
                          /\ repo_call' = [call EXCEPT !.returned = db_application]
                   /\ next_id' = next_id + 1
    /\ UNCHANGED <<applyVars, scrollVars, extractVars, rateVars, listVars, breakerVars>>

\* Lines 60-74: update. A missing row gives None; else the fields of
\* ApplicationUpdate that were set are written (job_id is not one of them).
RepoUpdate ==
    /\ \E id \in ApplicationIds, st \in Statuses :
          LET application == get(id)
              call == [NoRepoCall EXCEPT !.op = "update", !.status = st]
          IN  IF application = NoApplication
              THEN /\ repo_call' = call
                   /\ UNCHANGED applications
              ELSE LET updated == [application EXCEPT !.status = st]
                   IN  /\ applications' = (applications \ {application}) \cup {updated}
                       /\ repo_call' = [call EXCEPT !.job_id = application.job_id,
                                                    !.stored = TRUE, !.returned = updated]
    /\ UNCHANGED next_id
    /\ UNCHANGED <<applyVars, scrollVars, extractVars, rateVars, listVars, breakerVars>>

\* Lines 76-84: delete. A missing row gives False.
RepoDelete ==
    /\ \E id \in ApplicationIds :
          LET application == get(id)
              call == [NoRepoCall EXCEPT !.op = "delete"]
          IN  IF application = NoApplication
              THEN /\ repo_call' = call
                   /\ UNCHANGED applications
              ELSE /\ applications' = applications \ {application}
                   /\ repo_call' = [call EXCEPT !.job_id = application.job_id,
                                                !.stored = TRUE, !.found = TRUE]
    /\ UNCHANGED next_id
    /\ UNCHANGED <<applyVars, scrollVars, extractVars, rateVars, listVars, breakerVars>>

\* Lines 149-155: exists is asked for a job_id.
RepoExists ==
    /\ \E jid \in JobIds :
          repo_call' = [NoRepoCall EXCEPT !.op = "exists", !.job_id = jid,
                                          !.found = exists(jid)]
    /\ UNCHANGED <<applications, next_id>>
    /\ UNCHANGED <<applyVars, scrollVars, extractVars, rateVars, listVars, breakerVars>>

NextRepo ==
    \/ RepoCreate
    \/ RepoUpdate
    \/ RepoDelete
    \/ RepoExists

InitRepoRun ==
    InitRepo /\ InitApplyIdle /\ InitScrollIdle /\ InitExtractIdle /\ InitRateIdle /\
    InitListIdle /\ InitBreakerIdle

SpecRepo == InitRepoRun /\ [][NextRepo]_vars

----------------------------------------------------------------------------
\* Properties of ApplicationRepository (SpecRepo)

StoredJobIds == {a.job_id : a \in applications}

\* At most one row per job_id.
C30_OnePerJob ==
    \A a, b \in applications : a.job_id = b.job_id => a = b

\* create: a stored job_id adds nothing, changes nothing and returns the
\* stored row; a new job_id adds exactly the returned row.
C30_CreateFirstWins ==
    repo_call.op = "create" =>
        IF repo_call.stored
        THEN /\ applications = repo_call.before
             /\ repo_call.returned \in applications
             /\ repo_call.returned.job_id = repo_call.job_id
        ELSE /\ applications = repo_call.before \cup {repo_call.returned}
             /\ repo_call.returned.job_id = repo_call.job_id
             /\ repo_call.returned.status = repo_call.status

\* exists answers by what is stored.
C30_ExistsExact ==
    /\ repo_call.op = "exists" => (repo_call.found <=> repo_call.job_id \in StoredJobIds)
    /\ \A jid \in JobIds : exists(jid) <=> jid \in StoredJobIds

\* C30: after any sequence of create, update and delete there is at most
\* one stored application per job_id; create with a stored job_id adds no
\* record, leaves the stored record as it is and returns it; exists(job_id)
\* is true exactly for the job_ids stored.
C30_OneApplicationPerJob ==
    /\ C30_OnePerJob
    /\ C30_CreateFirstWins
    /\ C30_ExistsExact

\* A second create for a stored, since updated, job returned the stored row.
C30_Witness ==
    /\ repo_call.op = "create"
    /\ repo_call.stored
    /\ repo_call.returned.status # repo_call.status
    /\ Cardinality(applications) = 2

====
